---- MODULE Spec2Model ----
(***************************************************************************)
(* A model of the review pipeline of app/nlp_pipeline.py: ProductScraper,  *)
(* SentimentAnalyzer, generate_csv_from_url and generate_csv_for_products, *)
(* and of the Flask application of app/app_complete.py.                    *)
(*                                                                         *)
(* Text is a sequence of one-character strings, so that whitespace         *)
(* normalisation, lower-casing, substring search, regular-expression       *)
(* matching and number formatting are computed rather than assumed.        *)
(* Decimal numbers are exact: [n |-> N, d |-> D] stands for N / 10^D.      *)
(***************************************************************************)
EXTENDS Integers, Sequences, FiniteSets, TLC

VARIABLES
    imported,        \* the names the module's import block has bound
    clock,           \* int(time.time())
    fs,              \* output_dir: file name -> what was written to it
    urls,            \* generate_csv_for_products: its urls argument
    i,               \* ... the position of its loop in urls (from 1)
    generated_csvs,  \* ... its list of returned paths
    pc,              \* where control is
    response,        \* scrape_product: what scraper.get returned, as its
                     \* place in Web (0 before the request)
    product_data,    \* generate_csv_from_url: the scraped record
    rows,            \* ... the rows assembled so far
    idx,             \* ... the position of its loop (enumerate, from 0)
    review_counter,  \* ... its counter
    result,          \* ... how the call ended: a path, None or an exception
    history,         \* (ghost) the phases and I/O of the current run, in order
    log,             \* (ghost) one record per run started by the batch
    call,            \* unit harness: the function applied and its arguments
    ret,             \* unit harness: what it returned (Pending before)
    temp_base,       \* app: TEMP_BASE_DIR, the session folders and their files
    cookie,          \* app: the session cookie the browser holds
    posts,           \* app: the number of sessions created so far
    index,           \* app: the locals of index() while it handles a POST
    dashboard,       \* app: the locals of dashboard()
    cleanup,         \* app: the locals of cleanup()
    start_over,      \* app: the locals of start_over()
    cleanup_thread   \* app: the locals of _cleanup, the background thread

pipeVars == <<imported, clock, fs, urls, i, generated_csvs, pc, response,
              product_data, rows, idx, review_counter, result, history, log>>
unitVars == <<call, ret>>
appVars == <<temp_base, cookie, posts, index, dashboard, cleanup, start_over,
             cleanup_thread>>
vars == <<pipeVars, unitVars, appVars>>

----------------------------------------------------------------------------
(* Python values *)

\* None. Text never holds a string of more than one character, so the two
\* cannot be confused.
None == <<"None">>

Rep(c, n) == [k \in 1..n |-> c]

Min(a, b) == IF a < b THEN a ELSE b

RECURSIVE Pow10(_)
Pow10(d) == IF d = 0 THEN 1 ELSE 10 * Pow10(d - 1)

\* A float, as the exact decimal N / 10^D
Dec(n, d) == [n |-> n, d |-> d]
\* a < b, a <= b on floats
DecLt(a, b) == a.n * Pow10(b.d) < b.n * Pow10(a.d)
DecLe(a, b) == a.n * Pow10(b.d) <= b.n * Pow10(a.d)
\* int(q): truncation (q is never negative where it is used)
IntOf(q) == q.n \div Pow10(q.d)

----------------------------------------------------------------------------
(* str methods and the regular expressions the scraper uses *)

Whitespace == {" ", "\t", "\n"}
Digits == <<"0", "1", "2", "3", "4", "5", "6", "7", "8", "9">>
IsDigit(c) == \E k \in 1..10 : Digits[k] = c
DigitVal(c) == (CHOOSE k \in 1..10 : Digits[k] = c) - 1

\* str.lower() on the letters the pages use
Upper == <<"A", "B", "C", "H", "O", "P", "R", "T">>
LowerOf == <<"a", "b", "c", "h", "o", "p", "r", "t">>
LowerChar(c) ==
    IF \E k \in 1..Len(Upper) : Upper[k] = c
    THEN LowerOf[CHOOSE k \in 1..Len(Upper) : Upper[k] = c]
    ELSE c
Lower(text) == [k \in 1..Len(text) |-> LowerChar(text[k])]

\* kw in text
Contains(text, kw) ==
    \E s \in 1..(Len(text) - Len(kw) + 1) :
        \A j \in 1..Len(kw) : text[s + j - 1] = kw[j]

\* text[:n]
Prefix(text, n) == SubSeq(text, 1, Min(n, Len(text)))

\* text.split(): the maximal runs of non-whitespace characters
RECURSIVE SplitFrom(_, _, _, _)
SplitFrom(text, k, cur, acc) ==
    IF k > Len(text)
    THEN IF cur = <<>> THEN acc ELSE Append(acc, cur)
    ELSE IF text[k] \in Whitespace
         THEN SplitFrom(text, k + 1, <<>>,
                        IF cur = <<>> THEN acc ELSE Append(acc, cur))
         ELSE SplitFrom(text, k + 1, Append(cur, text[k]), acc)
Split(text) == SplitFrom(text, 1, <<>>, <<>>)

\* " ".join(words)
RECURSIVE Join(_)
Join(words) ==
    IF words = <<>> THEN <<>>
    ELSE IF Len(words) = 1 THEN words[1]
    ELSE words[1] \o <<" ">> \o Join(Tail(words))

\* ProductScraper._clean_text
CleanText(text) ==
    IF text = None \/ text = <<>> THEN <<>> ELSE Join(Split(text))

\* re.sub(r'[₹$,\s]', '', text)
PriceNoise == {"₹", "$", ","} \cup Whitespace
StripPriceNoise(text) == SelectSeq(text, LAMBDA c : c \notin PriceNoise)

\* The end (exclusive) of the run of digits that starts at position k
RECURSIVE DigitsEnd(_, _)
DigitsEnd(text, k) ==
    IF k <= Len(text) /\ IsDigit(text[k]) THEN DigitsEnd(text, k + 1) ELSE k

RECURSIVE DigitsValue(_, _, _, _)
DigitsValue(text, k, e, acc) ==
    IF k >= e THEN acc
    ELSE DigitsValue(text, k + 1, e, 10 * acc + DigitVal(text[k]))

\* re.search(r'(\d+\.?\d*)', text): the leftmost digit starts the match,
\* \d+ takes the whole run of digits, then an optional dot and the digits
\* after it.  found is FALSE when there is no match; otherwise n / 10^d is
\* float(match.group(1)).
NoMatch == [found |-> FALSE, n |-> 0, d |-> 0]
FirstNumber(text) ==
    IF \A k \in 1..Len(text) : ~IsDigit(text[k]) THEN NoMatch
    ELSE LET s == CHOOSE k \in 1..Len(text) :
                      /\ IsDigit(text[k])
                      /\ \A j \in 1..(k - 1) : ~IsDigit(text[j])
             e == DigitsEnd(text, s)
             dot == e <= Len(text) /\ text[e] = "."
             f == IF dot THEN DigitsEnd(text, e + 1) ELSE e
             whole == DigitsValue(text, s, e, 0)
         IN  IF dot
             THEN [found |-> TRUE, n |-> DigitsValue(text, e + 1, f, whole),
                   d |-> f - (e + 1)]
             ELSE [found |-> TRUE, n |-> whole, d |-> 0]
Float(m) == Dec(m.n, m.d)

\* str(n) for n >= 0
RECURSIVE Str(_)
Str(n) == IF n < 10 THEN <<Digits[n + 1]>>
          ELSE Str(n \div 10) \o <<Digits[(n % 10) + 1]>>

\* f"{n:0{w}d}": zero-padded to at least w digits
ZeroPad(n, w) ==
    LET s == Str(n) IN IF Len(s) >= w THEN s ELSE Rep("0", w - Len(s)) \o s

----------------------------------------------------------------------------
(* The parsed page (BeautifulSoup).  A page is its leading text, its title *)
(* and price elements and its review elements, all in document order.  An  *)
(* element records which of the scraper's selectors match it.              *)

\* soup.select(selector) over a list of elements tagged with the selector
\* that matches them
SelectBy(elems, sel) == SelectSeq(elems, LAMBDA e : e.sel = sel)

\* review_containers = ['[data-hook="review"]', '.review', '.a-section.review']
Matches(e, sel) ==
    CASE sel = 1 -> e.hook
      [] sel = 2 -> "review" \in e.classes
      [] sel = 3 -> {"a-section", "review"} \subseteq e.classes
SelectReviews(soup, sel) == SelectSeq(soup.elems, LAMBDA e : Matches(e, sel))

\* elem.get_text() of an optional child
TextOf(t) == IF t = None THEN <<>> ELSE t

RECURSIVE ConcatAll(_)
ConcatAll(texts) ==
    IF texts = <<>> THEN <<>> ELSE Head(texts) \o ConcatAll(Tail(texts))

\* soup.get_text(): every text node of the page, in document order
GetText(soup) ==
    soup.lead
    \o ConcatAll([k \in 1..Len(soup.titles) |-> soup.titles[k].text])
    \o ConcatAll([k \in 1..Len(soup.prices) |-> soup.prices[k].text])
    \o ConcatAll([k \in 1..Len(soup.elems) |->
                    TextOf(soup.elems[k].star) \o TextOf(soup.elems[k].body)
                    \o TextOf(soup.elems[k].alt)])

----------------------------------------------------------------------------
(* class ProductScraper *)

NameSelectors == 3
PriceSelectors == 3
ReviewContainers == 3
MinNameLen == 5
MinReviewLen == 20
PriceLow == 100
PriceHigh == 1000000
RobotWindow == 500
UnknownProduct ==
    <<"U", "n", "k", "n", "o", "w", "n", " ",
      "P", "r", "o", "d", "u", "c", "t">>
DefaultRating == Dec(30, 1)

\* _extract_product_name: the first selector whose first element has a
\* cleaned text of more than 5 characters
RECURSIVE NameFrom(_, _)
NameFrom(soup, sel) ==
    IF sel > NameSelectors THEN UnknownProduct
    ELSE LET found == SelectBy(soup.titles, sel)
             text == IF found = <<>> THEN <<>> ELSE CleanText(found[1].text)
         IN  IF text # <<>> /\ Len(text) > MinNameLen
             THEN text
             ELSE NameFrom(soup, sel + 1)
ExtractProductName(soup) == NameFrom(soup, 1)

\* (mutant) a closed range
PriceInRange_Closed(price) ==
    DecLe(Dec(PriceLow, 0), price) /\ DecLe(price, Dec(PriceHigh, 0))

\* the test of line 82
PriceInRange(price) ==
    DecLt(Dec(PriceLow, 0), price) /\ DecLt(price, Dec(PriceHigh, 0))

\* _extract_price: selectors in order, elements in document order, return
\* at the first price in range; 0.0 after the loops
RECURSIVE PriceFrom(_, _, _)
PriceFrom(soup, sel, k) ==
    IF sel > PriceSelectors THEN Dec(0, 1)
    ELSE LET elems == SelectBy(soup.prices, sel) IN
         IF k > Len(elems) THEN PriceFrom(soup, sel + 1, 1)
         ELSE LET match == FirstNumber(StripPriceNoise(elems[k].text)) IN
              IF match.found /\ PriceInRange(Float(match))
              THEN Float(match)
              ELSE PriceFrom(soup, sel, k + 1)
ExtractPrice(soup) == PriceFrom(soup, 1, 1)

\* lines 97-104: the first text sub-selector that matches decides
ReviewText(e) ==
    IF e.body # None THEN CleanText(e.body)
    ELSE IF e.alt # None THEN CleanText(e.alt)
    ELSE None

\* line 106: the review is skipped
TooShort(review_text) ==
    review_text = None \/ review_text = <<>> \/ Len(review_text) < MinReviewLen

\* lines 109-115
StarRating(e) ==
    IF e.star # None /\ FirstNumber(e.star).found
    THEN Float(FirstNumber(e.star))
    ELSE DefaultRating

\* lines 95-121: the elements of one container selector
RECURSIVE ScanElems(_, _, _)
ScanElems(elems, k, acc) ==
    IF k > Len(elems) THEN acc
    ELSE IF TooShort(ReviewText(elems[k]))
         THEN ScanElems(elems, k + 1, acc)
         ELSE ScanElems(elems, k + 1,
                  [reviews |-> Append(acc.reviews, ReviewText(elems[k])),
                   ratings |-> Append(acc.ratings, StarRating(elems[k]))])

\* (mutant) no break: later selectors are merged in
TryNextContainer_NoBreak(acc) == TRUE

\* lines 123-124: whether the loop over the container selectors goes on
\* after a selector
TryNextContainer(acc) == acc.reviews = <<>>

\* _extract_reviews_and_ratings
RECURSIVE ReviewsFrom(_, _, _)
ReviewsFrom(soup, sel, acc) ==
    IF sel > ReviewContainers THEN acc
    ELSE LET got == ScanElems(SelectReviews(soup, sel), 1, acc) IN
         IF TryNextContainer(got)
         THEN ReviewsFrom(soup, sel + 1, got)
         ELSE got
ExtractReviewsAndRatings(soup) ==
    ReviewsFrom(soup, 1, [reviews |-> <<>>, ratings |-> <<>>])

\* line 141, on page_text = soup.get_text().lower()
Captcha == <<"c", "a", "p", "t", "c", "h", "a">>
Robot == <<"r", "o", "b", "o", "t">>
\* (mutant) only the second test
Blocked_RobotOnly(page_text) ==
    Contains(Prefix(page_text, RobotWindow), Robot)

Blocked(page_text) ==
    Contains(page_text, Captcha) \/ Contains(Prefix(page_text, RobotWindow), Robot)

----------------------------------------------------------------------------
(* class SentimentAnalyzer *)

PosThreshold == Dec(5, 2)
NegThreshold == Dec(-5, 2)
NeutralResult ==
    [sentiment |-> "Neutral", compound_score |-> Dec(0, 1),
     pos_score |-> Dec(0, 1), neg_score |-> Dec(0, 1), neu_score |-> Dec(10, 1)]

\* (mutant) exclusive thresholds
Label_Strict(compound_score) ==
    IF DecLt(PosThreshold, compound_score) THEN "Positive"
    ELSE IF DecLt(compound_score, NegThreshold) THEN "Negative"
    ELSE "Neutral"

\* lines 183-188
Label(compound_score) ==
    IF DecLe(PosThreshold, compound_score) THEN "Positive"
    ELSE IF DecLe(compound_score, NegThreshold) THEN "Negative"
    ELSE "Neutral"

\* SentimentAnalyzer.predict; scores is what self.sia.polarity_scores(text)
\* returns for this text
Predict(text, scores) ==
    IF text = None \/ text = <<>> THEN NeutralResult
    ELSE [sentiment |-> Label(scores.compound),
          compound_score |-> scores.compound,
          pos_score |-> scores.pos,
          neg_score |-> scores.neg,
          neu_score |-> scores.neu]

----------------------------------------------------------------------------
(* Inputs.  Review and price texts, and the elements that carry them.      *)

MaxPriceElems == 2
MaxReviewElems == 2

SeqsUpTo(S, n) == UNION {[1..k -> S] : k \in 0..n}

\* 5 characters
tShort == Rep("a", 5)
\* 24 characters, 19 once cleaned
tPadded ==
    <<" ", " ">> \o Rep("b", 9) \o <<" ", "\n", " ">> \o Rep("b", 9) \o <<" ">>
\* 21 characters, 20 once cleaned
t20 == Rep("g", 10) \o <<" ", "\t">> \o Rep("g", 9)
\* 40 characters
t40 == Rep("n", 19) \o <<" ">> \o Rep("n", 20)
Stars45 == <<"4", ".", "5", " ", "o", "u", "t", " ", "o", "f", " ", "5">>

PriceTexts ==
    { <<"4", ".", "5">>,
      <<"1", "0", "0">>,
      <<"1", "0", "0", ".", "0", "1">>,
      <<"₹", "1", ",", "2", "9", "9", ".">>,
      <<"9", "9", "9", "9", "9", "9", ".", "9", "9">>,
      <<"1", "0", "0", "0", "0", "0", "0">>,
      <<"$", " ", "2", "5", "0", " ">>,
      <<"N", "/", "A">> }
PriceElems == [sel : 1..PriceSelectors, text : PriceTexts]

ReviewAttrs ==
    { [hook |-> TRUE, classes |-> {}],
      [hook |-> FALSE, classes |-> {"review"}],
      [hook |-> TRUE, classes |-> {"a-section", "review"}] }
ReviewElems ==
    { [hook |-> a.hook, classes |-> a.classes, body |-> b, alt |-> c, star |-> st] :
        a \in ReviewAttrs, b \in {None, tShort, tPadded, t20},
        c \in {None, t40}, st \in {None, Stars45} }

\* a review element with a body and a star-rating element
Elem(body, star) ==
    [hook |-> TRUE, classes |-> {"review"}, body |-> body, alt |-> None,
     star |-> star]

EmptySoup == [lead |-> <<>>, titles |-> <<>>, prices |-> <<>>, elems |-> <<>>]

\* what polarity_scores may return: compound is rounded to 4 decimals
Compounds ==
    { Dec(-10000, 4), Dec(-501, 4), Dec(-5, 2), Dec(-499, 4), Dec(0, 1),
      Dec(499, 4), Dec(5, 2), Dec(501, 4), Dec(10000, 4) }
VaderScores ==
    { [compound |-> c, pos |-> p, neg |-> Dec(0, 1), neu |-> Dec(1000 - p.n, 3)] :
        c \in Compounds, p \in {Dec(0, 3), Dec(412, 3)} }

PriceCalls ==
    { [fn |-> "_extract_price", soup |-> [EmptySoup EXCEPT !.prices = ps]] :
        ps \in SeqsUpTo(PriceElems, MaxPriceElems) }
ReviewCalls ==
    { [fn |-> "_extract_reviews_and_ratings",
       soup |-> [EmptySoup EXCEPT !.elems = es]] :
        es \in SeqsUpTo(ReviewElems, MaxReviewElems) }
PredictCalls ==
    { [fn |-> "predict", text |-> t, scores |-> sc] :
        t \in {None, <<>>, t20}, sc \in VaderScores }

\* what a star-rating element may hold: any text
StarTexts ==
    { None,
      <<"n", "o", " ", "r", "a", "t", "i", "n", "g">>,
      <<"5", ".", "0", " ", "o", "u", "t", " ", "o", "f", " ", "5">>,
      <<"1", "0">>,
      <<"4", "5", " ", "s", "t", "a", "r", "s">> }
StarCalls ==
    { [fn |-> "_extract_reviews_and_ratings",
       soup |-> [EmptySoup EXCEPT !.elems = es]] :
        es \in SeqsUpTo({Elem(t20, st) : st \in StarTexts}, MaxReviewElems) }

----------------------------------------------------------------------------
(* The web.  What scraper.get may answer: an exception, or a response with *)
(* a status and a page.                                                    *)

MaxUrls == 2
MaxClock == 2

\* the k-th URL of the list handed to the batch; they are all different
Url(k) == <<"https://www.amazon.in/dp/", k>>
UrlLists == {[k \in 1..n |-> Url(k)] : n \in 0..MaxUrls}

Title == <<"G", "o", "o", "d", " ", "l", "a", "m", "p">>
CaptchaLead == <<"E", "n", "t", "e", "r", " ", "C", "A", "P", "T", "C", "H", "A">>
RobotWord == <<"R", "o", "b", "o", "t">>
tCaptcha == <<"c", "a", "p", "t", "c", "h", "a">> \o <<" ">> \o Rep("n", 20)

Page(lead, bodies) ==
    [lead |-> lead,
     titles |-> <<[sel |-> 1, text |-> Title]>>,
     prices |-> <<[sel |-> 1, text |-> <<"₹", "1", ",", "2", "9", "9", ".">>]>>,
     elems |-> [k \in 1..Len(bodies) |-> Elem(bodies[k], Stars45)]]
Answer(status, soup) == [kind |-> "response", status |-> status, soup |-> soup]

Web ==
    << [kind |-> "exception", status |-> 0, soup |-> EmptySoup],
       Answer(503, Page(<<>>, <<t40>>)),
       \* three reviews of 5, 20 and 40 characters
       Answer(200, Page(<<>>, <<tShort, t20, t40>>)),
       \* a challenge page that also holds reviews
       Answer(200, Page(CaptchaLead, <<t20, t40>>)),
       \* "robot" ending at character 500, and starting at character 497
       Answer(200, Page(Rep("x", 495) \o RobotWord, <<t40>>)),
       Answer(200, Page(Rep("x", 496) \o RobotWord, <<t40>>)),
       \* no review of 20 characters
       Answer(200, Page(<<>>, <<tPadded, tShort>>)),
       \* a review that mentions the word
       Answer(200, Page(<<>>, <<t20, tCaptcha>>)) >>

----------------------------------------------------------------------------
(* The module's import block, lines 19-28: the names are bound in order up *)
(* to the first import that fails.                                         *)

ImportOrder ==
    <<"SentimentIntensityAnalyzer", "requests", "BeautifulSoup", "cloudscraper",
      "nltk">>
ImportOutcomes ==
    {{ImportOrder[k] : k \in 1..n} : n \in 0..Len(ImportOrder)}

----------------------------------------------------------------------------
(* app/app_complete.py: the Flask application.  One browser, whose         *)
(* requests carry its session cookie; the server runs the handlers in      *)
(* threads, next to the cleanup thread.  No session id is 0.               *)

SESSION_TIMEOUT == 1800
CleanupPeriod == 300
MaxSleeps == 7
MaxPosts == 1

\* os.path.join(session_dir, filename); no path (None) has no directory
NoPath == [dir |-> 0, name |-> <<>>]
CsvPath(session_id, now) ==
    [dir |-> session_id, name |-> <<"amazon_reviews_", now, ".csv">>]
Basename(path) == path.name

\* TEMP_BASE_DIR: folder name -> its creation time and its files
Exists(path) ==
    path.dir \in DOMAIN temp_base /\ path.name \in temp_base[path.dir].files
Makedirs(folder, now) ==
    [f \in DOMAIN temp_base \cup {folder} |->
        IF f \in DOMAIN temp_base THEN temp_base[f]
        ELSE [ctime |-> now, files |-> {}]]
WriteFile(path) ==
    [temp_base EXCEPT ![path.dir].files = @ \cup {path.name}]
\* shutil.rmtree(folder_path, ignore_errors=True)
Rmtree(folder) == [f \in DOMAIN temp_base \ {folder} |-> temp_base[f]]

\* read_csv_as_string and get_csv_as_json: None when the file cannot be read
ReadCsvAsString(path) == IF Exists(path) THEN <<"csv", path.name>> ELSE None
GetCsvAsJson(path) == IF Exists(path) THEN <<"json", path.name>> ELSE None

\* the session, kept in the browser's cookie
NoCookie == [session_id |-> 0, csv_results |-> <<>>]

\* the entries of csv_results, lines 180-202
Success(url, path) ==
    [url |-> url, filename |-> Basename(path), path |-> path,
     status |-> "success", error |-> ""]
Failed(url, error) ==
    [url |-> url, filename |-> None, path |-> NoPath, status |-> "failed",
     error |-> error]

\* the entries of dashboard_data, lines 246-259
Shown(res, csv_string, csv_json) ==
    [url |-> res.url, filename |-> res.filename, csv_data |-> csv_string,
     csv_json |-> csv_json, status |-> "success", error |-> ""]
ShownFailed(res) ==
    [url |-> res.url, filename |-> None, csv_data |-> None, csv_json |-> None,
     status |-> "failed", error |-> res.error]

IdleIndex ==
    [pc |-> "idle", urls |-> <<>>, session_id |-> 0, i |-> 0,
     csv_path |-> NoPath, csv_results |-> <<>>]
IdleDashboard ==
    [pc |-> "idle", session_id |-> 0, csv_results |-> <<>>, k |-> 0,
     csv_string |-> None, dashboard_data |-> <<>>]
IdleRequest == [pc |-> "idle", session_id |-> 0]

\* the application before any request: an empty TEMP_BASE_DIR (line 33),
\* no cookie, the cleanup thread started (line 340)
IdleApp ==
    /\ temp_base = <<>>
    /\ cookie = NoCookie
    /\ posts = 0
    /\ index = IdleIndex
    /\ dashboard = IdleDashboard
    /\ cleanup = IdleRequest
    /\ start_over = IdleRequest
    /\ cleanup_thread = [pc |-> "wake", current_time |-> 0, listing |-> {}]

----------------------------------------------------------------------------
(* generate_csv_from_url and ProductScraper.scrape_product, step by step *)

NoResponse == 0
NoData ==
    [some |-> FALSE, product_name |-> <<>>, price |-> Dec(0, 1),
     reviews |-> <<>>, ratings |-> <<>>]

\* how a call of generate_csv_from_url ends
Running == [kind |-> "running", path |-> <<>>, exc |-> ""]
ReturnPath(path) == [kind |-> "path", path |-> path, exc |-> ""]
ReturnNone == [kind |-> "None", path |-> <<>>, exc |-> ""]
Raise(exc) == [kind |-> "raise", path |-> <<>>, exc |-> exc]

\* f"amazon_reviews_{int(time.time())}.csv" joined to output_dir
FilePath(now) == <<"output_dir", "amazon_reviews_", now, ".csv">>

\* self.sia.polarity_scores(text): the lexicon is not part of the program;
\* here "g" words are positive, "b" words negative and the rest neutral
PolarityScores(text) ==
    IF Contains(text, <<"g">>)
    THEN [compound |-> Dec(6369, 4), pos |-> Dec(412, 3), neg |-> Dec(0, 1),
          neu |-> Dec(588, 3)]
    ELSE IF Contains(text, <<"b">>)
    THEN [compound |-> Dec(-5423, 4), pos |-> Dec(0, 1), neg |-> Dec(368, 3),
          neu |-> Dec(632, 3)]
    ELSE [compound |-> Dec(0, 1), pos |-> Dec(0, 1), neg |-> Dec(0, 1),
          neu |-> Dec(10, 1)]

\* zip(product_data['reviews'], product_data['ratings'])
ZipLen(data) == Min(Len(data.reviews), Len(data.ratings))

\* (mutant) the counter without its padding
ReviewId_Unpadded(counter) == <<"R">> \o Str(counter)

\* lines 273-274
ReviewId(counter) == <<"R">> \o ZeroPad(counter, 6)
ProductId(counter) == <<"B", "0">> \o ZeroPad(counter, 8)

\* datetime.now(), line 278: the local time `now` seconds after the batch
\* started.  The batch starts at 23:59:59 on 2025-12-31, counted in seconds
\* from 1970-01-01 00:00:00, so the clock's second 1 is the first of the next
\* day; a run that starts after it sees no change of date
Now(now) == 1767225599 + now

\* the proleptic Gregorian date of a time, as datetime computes it
DateOf(seconds) ==
    LET z == seconds \div 86400 + 719468
        era == z \div 146097
        doe == z - era * 146097
        yoe == (doe - doe \div 1460 + doe \div 36524 - doe \div 146096) \div 365
        doy == doe - (365 * yoe + yoe \div 4 - yoe \div 100)
        mp == (5 * doy + 2) \div 153
        m == IF mp < 10 THEN mp + 3 ELSE mp - 9
    IN  [year |-> yoe + era * 400 + (IF m <= 2 THEN 1 ELSE 0),
         month |-> m,
         day |-> doy - (153 * mp + 2) \div 5 + 1]

\* strftime('%Y-%m-%d')
Strftime(date) ==
    ZeroPad(date.year, 4) \o <<"-">> \o ZeroPad(date.month, 2) \o <<"-">>
        \o ZeroPad(date.day, 2)

\* line 278, evaluated once for each row
ReviewDate(now) == Strftime(DateOf(Now(now)))

\* lines 263-295, the columns the properties read; `now` is the clock when
\* the row is assembled
Row(data, k, counter, now) ==
    [review_id |-> ReviewId(counter),
     product_id |-> ProductId(counter),
     product_name |-> data.product_name,
     review_text |-> data.reviews[k],
     rating |-> IntOf(data.ratings[k]),
     review_date |-> ReviewDate(now),
     sentiment_label |->
         Predict(data.reviews[k], PolarityScores(data.reviews[k])).sentiment]

\* The current run's record in the log
Logged(field, value) == [log EXCEPT ![Len(log)][field] = value]

\* The run ends: generate_csv_from_url returns or raises
End(res, events, lg) ==
    /\ result' = res
    /\ history' = history \o events
    /\ log' = [lg EXCEPT ![Len(lg)].result = res]
    /\ pc' = "returned"

\* (mutant) the constructor's exception is turned into None
NewScraper_Swallow ==
    /\ pc = "scraper"
    /\ IF {"cloudscraper", "requests"} \subseteq imported
       THEN /\ pc' = "get"
            /\ UNCHANGED <<result, history, log>>
       ELSE End(ReturnNone, <<"Failed">>, log)
    /\ UNCHANGED <<imported, clock, fs, urls, i, generated_csvs, response,
                   product_data, rows, idx, review_counter, unitVars, appVars>>

\* line 243, ProductScraper.__init__: cloudscraper.create_scraper and
\* requests.Session; an unbound name is a NameError, outside any try
NewScraper ==
    /\ pc = "scraper"
    /\ IF {"cloudscraper", "requests"} \subseteq imported
       THEN /\ pc' = "get"
            /\ UNCHANGED <<result, history, log>>
       ELSE End(Raise("NameError"), <<"Failed">>, log)
    /\ UNCHANGED <<imported, clock, fs, urls, i, generated_csvs, response,
                   product_data, rows, idx, review_counter, unitVars, appVars>>

\* (mutant) a failed request is tried again
ScraperGet_Retry ==
    /\ pc = "get"
    /\ \E w \in 1..Len(Web) :
          /\ response' = w
          /\ pc' = IF Web[w].kind = "exception" \/ Web[w].status # 200
                   THEN "get" ELSE "soup"
          /\ history' = history \o <<"Fetching", "GET">>
          /\ log' = Logged("resp", w)
          /\ UNCHANGED result
    /\ UNCHANGED <<imported, clock, fs, urls, i, generated_csvs,
                   product_data, rows, idx, review_counter, unitVars, appVars>>

\* lines 131-136: the one request.  An exception is caught at line 161 and
\* a status other than 200 returns None; line 246 then returns None
ScraperGet ==
    /\ pc = "get"
    /\ \E w \in 1..Len(Web) :
          /\ response' = w
          /\ IF Web[w].kind = "exception" \/ Web[w].status # 200
             THEN End(ReturnNone, <<"Fetching", "GET", "Failed">>,
                      Logged("resp", w))
             ELSE /\ pc' = "soup"
                  /\ history' = history \o <<"Fetching", "GET">>
                  /\ log' = Logged("resp", w)
                  /\ UNCHANGED result
    /\ UNCHANGED <<imported, clock, fs, urls, i, generated_csvs,
                   product_data, rows, idx, review_counter, unitVars, appVars>>

\* lines 138-143: parse, then the check for a challenge page
ParsePage ==
    /\ pc = "soup"
    /\ IF "BeautifulSoup" \notin imported
          \/ Blocked(Lower(GetText(Web[response].soup)))
       THEN End(ReturnNone, <<"Extracting", "Failed">>, log)
       ELSE /\ pc' = "fields"
            /\ history' = Append(history, "Extracting")
            /\ UNCHANGED <<result, log>>
    /\ UNCHANGED <<imported, clock, fs, urls, i, generated_csvs, response,
                   product_data, rows, idx, review_counter, unitVars, appVars>>

\* lines 145-159 and 246-250: the three extractions; no reviews is None
ExtractFields ==
    /\ pc = "fields"
    /\ LET found == ExtractReviewsAndRatings(Web[response].soup) IN
       IF found.reviews = <<>>
       THEN /\ End(ReturnNone, <<"FIELDS", "Failed">>, log)
            /\ UNCHANGED product_data
       ELSE /\ product_data' =
                  [some |-> TRUE,
                   product_name |-> ExtractProductName(Web[response].soup),
                   price |-> ExtractPrice(Web[response].soup),
                   reviews |-> found.reviews,
                   ratings |-> found.ratings]
            /\ pc' = "analyzers"
            /\ history' = Append(history, "FIELDS")
            /\ UNCHANGED <<result, log>>
    /\ UNCHANGED <<imported, clock, fs, urls, i, generated_csvs, response,
                   rows, idx, review_counter, unitVars, appVars>>

\* lines 256-260: SentimentAnalyzer.__init__ needs its name bound
NewAnalyzers ==
    /\ pc = "analyzers"
    /\ IF "SentimentIntensityAnalyzer" \in imported
       THEN /\ rows' = <<>>
            /\ review_counter' = 1
            /\ idx' = 0
            /\ pc' = "rows"
            /\ history' = Append(history, "Scoring")
            /\ UNCHANGED <<result, log>>
       ELSE /\ End(Raise("NameError"), <<"Failed">>, log)
            /\ UNCHANGED <<rows, review_counter, idx>>
    /\ UNCHANGED <<imported, clock, fs, urls, i, generated_csvs, response,
                   product_data, unitVars, appVars>>

\* lines 262-298: one pass of the loop
BuildRow ==
    /\ pc = "rows"
    /\ idx < ZipLen(product_data)
    /\ rows' = Append(rows, Row(product_data, idx + 1, review_counter, clock))
    /\ review_counter' = review_counter + 1
    /\ idx' = idx + 1
    /\ UNCHANGED <<imported, clock, fs, urls, i, generated_csvs, pc, response,
                   product_data, result, history, log, unitVars, appVars>>

\* to_csv(filepath): the file is created or replaced
Written(path, content, whole) ==
    [f \in DOMAIN fs \cup {path} |->
        IF f = path
        THEN [writer |-> i, rows |-> content, complete |-> whole]
        ELSE fs[f]]

\* lines 301-326: the table, the file name from the clock, the write.  The
\* write succeeds, fails before the file exists, or fails part-way
SaveCsv ==
    /\ pc = "rows"
    /\ idx = ZipLen(product_data)
    /\ LET filepath == FilePath(clock) IN
       \E disk \in {"ok", "error", "partial"} :
          CASE disk = "ok" ->
                 /\ fs' = Written(filepath, rows, TRUE)
                 /\ End(ReturnPath(filepath), <<"Serializing", "WRITE", "Done">>,
                        Logged("disk", disk))
            [] disk = "error" ->
                 /\ fs' = fs
                 /\ End(ReturnNone, <<"Serializing", "Failed">>,
                        Logged("disk", disk))
            [] disk = "partial" ->
                 /\ fs' = Written(filepath, SubSeq(rows, 1, Len(rows) - 1), FALSE)
                 /\ End(ReturnNone, <<"Serializing", "WRITE", "Failed">>,
                        Logged("disk", disk))
    /\ UNCHANGED <<imported, clock, urls, i, generated_csvs, response,
                   product_data, rows, idx, review_counter, unitVars, appVars>>

----------------------------------------------------------------------------
(* generate_csv_for_products *)

\* lines 346-352: the next URL, and the call
BatchCall ==
    /\ pc = "for"
    /\ i <= Len(urls)
    /\ pc' = "scraper"
    /\ response' = NoResponse
    /\ product_data' = NoData
    /\ rows' = <<>>
    /\ idx' = 0
    /\ review_counter' = 0
    /\ result' = Running
    /\ history' = <<>>
    /\ log' = Append(log, [url |-> urls[i], resp |-> 0, disk |-> "none",
                           result |-> Running])
    /\ UNCHANGED <<imported, clock, fs, urls, i, generated_csvs, unitVars, appVars>>

\* (mutant) without the try: an exception ends the batch
BatchCollect_NoTry ==
    /\ pc = "returned"
    /\ generated_csvs' =
          IF result.kind = "path"
          THEN Append(generated_csvs, result.path)
          ELSE generated_csvs
    /\ i' = i + 1
    /\ pc' = IF result.kind = "raise" THEN "exit" ELSE "for"
    /\ UNCHANGED <<imported, clock, fs, urls, response, product_data, rows,
                   idx, review_counter, result, history, log, unitVars, appVars>>

\* (mutant) without the test of line 353: every result is appended
BatchCollect_AppendAll ==
    /\ pc = "returned"
    /\ generated_csvs' = Append(generated_csvs, result.path)
    /\ i' = i + 1
    /\ pc' = "for"
    /\ UNCHANGED <<imported, clock, fs, urls, response, product_data, rows,
                   idx, review_counter, result, history, log, unitVars, appVars>>

\* lines 353-357: a path is appended; None is not; an exception is caught
\* and the loop goes on
BatchCollect ==
    /\ pc = "returned"
    /\ generated_csvs' =
          IF result.kind = "path"
          THEN Append(generated_csvs, result.path)
          ELSE generated_csvs
    /\ i' = i + 1
    /\ pc' = "for"
    /\ UNCHANGED <<imported, clock, fs, urls, response, product_data, rows,
                   idx, review_counter, result, history, log, unitVars, appVars>>

\* lines 359-364
BatchReturn ==
    /\ pc = "for"
    /\ i > Len(urls)
    /\ pc' = "exit"
    /\ UNCHANGED <<imported, clock, fs, urls, i, generated_csvs, response,
                   product_data, rows, idx, review_counter, result, history,
                   log, unitVars, appVars>>

\* a second passes, at any point before the batch returns
Tick ==
    /\ pc # "exit"
    /\ clock < MaxClock
    /\ clock' = clock + 1
    /\ UNCHANGED <<imported, fs, urls, i, generated_csvs, pc, response,
                   product_data, rows, idx, review_counter, result, history,
                   log, unitVars, appVars>>

NoCall == [fn |-> "none"]

InitPipe ==
    /\ imported \in ImportOutcomes
    /\ clock = 0
    /\ fs = <<>>
    /\ urls \in UrlLists
    /\ i = 1
    /\ generated_csvs = <<>>
    /\ pc = "for"
    /\ response = NoResponse
    /\ product_data = NoData
    /\ rows = <<>>
    /\ idx = 0
    /\ review_counter = 0
    /\ result = Running
    /\ history = <<>>
    /\ log = <<>>

Init == InitPipe /\ call = NoCall /\ ret = [state |-> "pending"] /\ IdleApp

Next ==
    \/ BatchCall
    \/ NewScraper
    \/ ScraperGet
    \/ ParsePage
    \/ ExtractFields
    \/ NewAnalyzers
    \/ BuildRow
    \/ SaveCsv
    \/ BatchCollect
    \/ BatchReturn
    \/ Tick

Spec == Init /\ [][Next]_vars

----------------------------------------------------------------------------
(* The unit harness: one call of one function on one input. *)

Pending == [state |-> "pending"]
Returned(v) == [state |-> "returned", value |-> v]

\* the pipeline is not started: nothing imported, no URL
IdlePipe ==
    /\ InitPipe
    /\ imported = {}
    /\ urls = <<>>

InitUnit ==
    /\ IdlePipe
    /\ IdleApp
    /\ \/ call \in PriceCalls
       \/ call \in ReviewCalls
       \/ call \in StarCalls
       \/ call \in PredictCalls
    /\ ret = Pending

CallExtractPrice ==
    /\ call.fn = "_extract_price"
    /\ ret = Pending
    /\ ret' = Returned(ExtractPrice(call.soup))
    /\ UNCHANGED <<call, pipeVars, appVars>>

CallExtractReviews ==
    /\ call.fn = "_extract_reviews_and_ratings"
    /\ ret = Pending
    /\ ret' = Returned(ExtractReviewsAndRatings(call.soup))
    /\ UNCHANGED <<call, pipeVars, appVars>>

CallPredict ==
    /\ call.fn = "predict"
    /\ ret = Pending
    /\ ret' = Returned(Predict(call.text, call.scores))
    /\ UNCHANGED <<call, pipeVars, appVars>>

NextUnit == CallExtractPrice \/ CallExtractReviews \/ CallPredict

SpecUnit == InitUnit /\ [][NextUnit]_vars

----------------------------------------------------------------------------
(* The handlers of app_complete.py and its cleanup thread, step by step *)

\* lines 146-158: a POST without a URL is sent back to the form
IndexRejected ==
    /\ index.pc = "idle"
    /\ index' = [index EXCEPT !.pc = "redirect"]
    /\ UNCHANGED <<temp_base, cookie, posts, dashboard, cleanup, start_over,
                   cleanup_thread, pipeVars, unitVars>>

\* lines 146-173: a POST with URLs; uuid4 gives a session id never used
\* before, and the session folder is made
IndexPost ==
    /\ index.pc = "idle"
    /\ posts < MaxPosts
    /\ \E us \in UrlLists \ {<<>>} :
          index' = [pc |-> "for", urls |-> us, session_id |-> posts + 1,
                    i |-> 1, csv_path |-> NoPath, csv_results |-> <<>>]
    /\ posts' = posts + 1
    /\ temp_base' = Makedirs(posts + 1, clock)
    /\ UNCHANGED <<cookie, dashboard, cleanup, start_over, cleanup_thread,
                   pipeVars, unitVars>>

\* line 178 and lines 45-69: the pipeline on one URL.  It returns the path
\* of the file it wrote into the session folder, or None; it cannot write
\* into a folder that is gone, and every exception is turned into None
IndexRun ==
    /\ index.pc = "for"
    /\ index.i <= Len(index.urls)
    /\ \E ok \in BOOLEAN :
          LET csv_path == CsvPath(index.session_id, clock) IN
          IF ok /\ index.session_id \in DOMAIN temp_base
          THEN /\ temp_base' = WriteFile(csv_path)
               /\ index' = [index EXCEPT !.pc = "exists", !.csv_path = csv_path]
          ELSE /\ temp_base' = temp_base
               /\ index' = [index EXCEPT !.pc = "exists", !.csv_path = NoPath]
    /\ UNCHANGED <<cookie, posts, dashboard, cleanup, start_over,
                   cleanup_thread, pipeVars, unitVars>>

\* lines 179-203: one entry for the URL, whatever happened
IndexAppend ==
    /\ index.pc = "exists"
    /\ LET url == index.urls[index.i]
           entry == IF index.csv_path # NoPath /\ Exists(index.csv_path)
                    THEN Success(url, index.csv_path)
                    ELSE Failed(url, "Pipeline returned None")
       IN  index' = [index EXCEPT !.pc = "for", !.i = @ + 1,
                                  !.csv_path = NoPath,
                                  !.csv_results = Append(@, entry)]
    /\ UNCHANGED <<temp_base, cookie, posts, dashboard, cleanup, start_over,
                   cleanup_thread, pipeVars, unitVars>>

\* lines 166, 206-210: the response stores the session in the cookie
IndexStore ==
    /\ index.pc = "for"
    /\ index.i > Len(index.urls)
    /\ cookie' = [session_id |-> index.session_id,
                  csv_results |-> index.csv_results]
    /\ index' = IdleIndex
    /\ UNCHANGED <<temp_base, posts, dashboard, cleanup, start_over,
                   cleanup_thread, pipeVars, unitVars>>

\* line 151 or 158: the redirect is answered
IndexRedirected ==
    /\ index.pc = "redirect"
    /\ index' = IdleIndex
    /\ UNCHANGED <<temp_base, cookie, posts, dashboard, cleanup, start_over,
                   cleanup_thread, pipeVars, unitVars>>

\* lines 221-233: the request arrives with the cookie the browser holds
DashboardRequest ==
    /\ dashboard.pc = "idle"
    /\ dashboard' =
          IF cookie.session_id = 0
          THEN [IdleDashboard EXCEPT !.pc = "redirect"]
          ELSE [pc |-> "loop", session_id |-> cookie.session_id,
                csv_results |-> cookie.csv_results, k |-> 1,
                csv_string |-> None, dashboard_data |-> <<>>]
    /\ UNCHANGED <<temp_base, cookie, posts, index, cleanup, start_over,
                   cleanup_thread, pipeVars, unitVars>>

\* lines 235-240 and 253-259: the next result; a failed one is listed, a
\* successful one has its file read as a string first
DashboardLoop ==
    /\ dashboard.pc = "loop"
    /\ dashboard.k <= Len(dashboard.csv_results)
    /\ LET res == dashboard.csv_results[dashboard.k] IN
       dashboard' =
          IF res.status = "success"
          THEN [dashboard EXCEPT !.pc = "json",
                                 !.csv_string = ReadCsvAsString(res.path)]
          ELSE [dashboard EXCEPT !.k = @ + 1,
                                 !.dashboard_data = Append(@, ShownFailed(res))]
    /\ UNCHANGED <<temp_base, cookie, posts, index, cleanup, start_over,
                   cleanup_thread, pipeVars, unitVars>>

\* lines 243-252: the file read again as JSON; the entry is appended when
\* both reads gave something, and there is no else
DashboardReadJson ==
    /\ dashboard.pc = "json"
    /\ LET res == dashboard.csv_results[dashboard.k]
           csv_string == dashboard.csv_string
           csv_json == GetCsvAsJson(res.path)
       IN  dashboard' =
              [dashboard EXCEPT
                 !.pc = "loop", !.k = @ + 1, !.csv_string = None,
                 !.dashboard_data =
                     IF csv_string # None /\ csv_json # None
                     THEN Append(@, Shown(res, csv_string, csv_json))
                     ELSE @]
    /\ UNCHANGED <<temp_base, cookie, posts, index, cleanup, start_over,
                   cleanup_thread, pipeVars, unitVars>>

\* line 264: render_template('Code.html', dashboard_data=dashboard_data)
DashboardRender ==
    /\ dashboard.pc = "loop"
    /\ dashboard.k > Len(dashboard.csv_results)
    /\ dashboard' = [dashboard EXCEPT !.pc = "render"]
    /\ UNCHANGED <<temp_base, cookie, posts, index, cleanup, start_over,
                   cleanup_thread, pipeVars, unitVars>>

\* the page, or the redirect of line 225, is sent
DashboardDone ==
    /\ dashboard.pc \in {"render", "redirect"}
    /\ dashboard' = IdleDashboard
    /\ UNCHANGED <<temp_base, cookie, posts, index, cleanup, start_over,
                   cleanup_thread, pipeVars, unitVars>>

\* line 294 and line 310: the request arrives with the cookie
CleanupRequest ==
    /\ cleanup.pc = "idle"
    /\ cleanup' = [pc |-> "rmtree", session_id |-> cookie.session_id]
    /\ UNCHANGED <<temp_base, cookie, posts, index, dashboard, start_over,
                   cleanup_thread, pipeVars, unitVars>>
StartOverRequest ==
    /\ start_over.pc = "idle"
    /\ start_over' = [pc |-> "rmtree", session_id |-> cookie.session_id]
    /\ UNCHANGED <<temp_base, cookie, posts, index, dashboard, cleanup,
                   cleanup_thread, pipeVars, unitVars>>

\* cleanup_session_folder, lines 123-133, called at line 297 and line 313
\* when there is a session id
CleanupSessionFolder(session_id) ==
    IF session_id # 0 THEN Rmtree(session_id) ELSE temp_base
CleanupRmtree ==
    /\ cleanup.pc = "rmtree"
    /\ temp_base' = CleanupSessionFolder(cleanup.session_id)
    /\ cleanup' = [cleanup EXCEPT !.pc = "respond"]
    /\ UNCHANGED <<cookie, posts, index, dashboard, start_over,
                   cleanup_thread, pipeVars, unitVars>>
StartOverRmtree ==
    /\ start_over.pc = "rmtree"
    /\ temp_base' = CleanupSessionFolder(start_over.session_id)
    /\ start_over' = [start_over EXCEPT !.pc = "respond"]
    /\ UNCHANGED <<cookie, posts, index, dashboard, cleanup, cleanup_thread,
                   pipeVars, unitVars>>

\* lines 298-302: session_id and csv_results are popped when there was a
\* session id, and the response carries the session
CleanupRespond ==
    /\ cleanup.pc = "respond"
    /\ cookie' = IF cleanup.session_id # 0 THEN NoCookie ELSE cookie
    /\ cleanup' = IdleRequest
    /\ UNCHANGED <<temp_base, posts, index, dashboard, start_over,
                   cleanup_thread, pipeVars, unitVars>>

\* lines 315-317: session.clear()
StartOverRespond ==
    /\ start_over.pc = "respond"
    /\ cookie' = NoCookie
    /\ start_over' = IdleRequest
    /\ UNCHANGED <<temp_base, posts, index, dashboard, cleanup,
                   cleanup_thread, pipeVars, unitVars>>

\* cleanup_old_sessions, lines 80-81: a pass begins
ThreadWake ==
    /\ cleanup_thread.pc = "wake"
    /\ cleanup_thread' = [pc |-> "scan", current_time |-> clock,
                          listing |-> DOMAIN temp_base]
    /\ UNCHANGED <<temp_base, cookie, posts, index, dashboard, cleanup,
                   start_over, pipeVars, unitVars>>

\* lines 82-87: one folder of the listing, in the order os.listdir gave
ThreadVisit ==
    /\ cleanup_thread.pc = "scan"
    /\ \E folder_name \in cleanup_thread.listing :
          /\ temp_base' =
                IF /\ folder_name \in DOMAIN temp_base
                   /\ cleanup_thread.current_time - temp_base[folder_name].ctime
                         > SESSION_TIMEOUT
                THEN Rmtree(folder_name)
                ELSE temp_base
          /\ cleanup_thread' = [cleanup_thread EXCEPT !.listing = @ \ {folder_name}]
    /\ UNCHANGED <<cookie, posts, index, dashboard, cleanup, start_over,
                   pipeVars, unitVars>>

\* line 91: time.sleep(300); the clock is 300 seconds on when it returns
ThreadSleep ==
    /\ cleanup_thread.pc = "scan"
    /\ cleanup_thread.listing = {}
    /\ clock < MaxSleeps * CleanupPeriod
    /\ clock' = clock + CleanupPeriod
    /\ cleanup_thread' = [cleanup_thread EXCEPT !.pc = "wake"]
    /\ UNCHANGED <<imported, fs, urls, i, generated_csvs, pc, response,
                   product_data, rows, idx, review_counter, result, history,
                   log, temp_base, cookie, posts, index, dashboard, cleanup,
                   start_over, unitVars>>

InitApp == IdlePipe /\ call = NoCall /\ ret = Pending /\ IdleApp

NextApp ==
    \/ IndexRejected
    \/ IndexPost
    \/ IndexRun
    \/ IndexAppend
    \/ IndexStore
    \/ IndexRedirected
    \/ DashboardRequest
    \/ DashboardLoop
    \/ DashboardReadJson
    \/ DashboardRender
    \/ DashboardDone
    \/ CleanupRequest
    \/ CleanupRmtree
    \/ CleanupRespond
    \/ StartOverRequest
    \/ StartOverRmtree
    \/ StartOverRespond
    \/ ThreadWake
    \/ ThreadVisit
    \/ ThreadSleep

SpecApp == InitApp /\ [][NextApp]_vars

----------------------------------------------------------------------------
(* Claims about the pure functions, under SpecUnit *)

ReturnedFrom(fn) == ret.state = "returned" /\ call.fn = fn

C8_Text(e) == CleanText(IF e.body # None THEN e.body ELSE e.alt)
C8_Usable(e) == Len(C8_Text(e)) >= 20
C8_UsableOf(soup, sel) ==
    LET kept == SelectSeq(SelectReviews(soup, sel), C8_Usable)
    IN  [k \in 1..Len(kept) |-> C8_Text(kept[k])]
C8_Expected(soup) ==
    IF \E sel \in 1..3 : C8_UsableOf(soup, sel) # <<>>
    THEN C8_UsableOf(soup, CHOOSE sel \in 1..3 :
                               /\ C8_UsableOf(soup, sel) # <<>>
                               /\ \A t \in 1..(sel - 1) : C8_UsableOf(soup, t) = <<>>)
    ELSE <<>>

\* C8: the extracted review list is exactly the usable reviews (cleaned
\* text of at least 20 characters) of the first container selector, in
\* selector order, that has a usable review, in document order; nothing of
\* a later selector is merged in, and every returned review has at least
\* 20 characters.
C8_FirstYieldingSelector ==
    ReturnedFrom("_extract_reviews_and_ratings") =>
        /\ ret.value.reviews = C8_Expected(call.soup)
        /\ Len(ret.value.ratings) = Len(ret.value.reviews)
        /\ \A k \in 1..Len(ret.value.reviews) : Len(ret.value.reviews[k]) >= 20

\* The first selector matches only a review of 19 cleaned characters, the
\* second selector's review is returned alone.
C8_Witness ==
    /\ ReturnedFrom("_extract_reviews_and_ratings")
    /\ Len(call.soup.elems) = 2
    /\ call.soup.elems[1].hook /\ call.soup.elems[1].body = tPadded
    /\ ~call.soup.elems[2].hook /\ call.soup.elems[2].body = t20
    /\ ret.value.reviews = <<CleanText(t20)>>

C9_Candidates(soup) ==
    SelectBy(soup.prices, 1) \o SelectBy(soup.prices, 2) \o SelectBy(soup.prices, 3)
C9_Number(e) == FirstNumber(StripPriceNoise(e.text))
C9_Inside(m) ==
    m.found /\ m.n > 100 * Pow10(m.d) /\ m.n < 1000000 * Pow10(m.d)

\* C9: the extracted price is the first numeric candidate, in selector
\* order and then document order, strictly between 100 and 1,000,000, and
\* 0.0 when there is none; so a returned price is 0 or strictly inside the
\* range, and 100 and 1000000 themselves are rejected.
C9_FirstPriceInOpenRange ==
    ReturnedFrom("_extract_price") =>
        LET c == C9_Candidates(call.soup)
            good == {k \in 1..Len(c) : C9_Inside(C9_Number(c[k]))}
        IN  /\ good = {} => ret.value.n = 0
            /\ good # {} =>
                  LET first == CHOOSE k \in good : \A j \in good : k <= j
                  IN  ret.value = Float(C9_Number(c[first]))
            /\ \/ ret.value.n = 0
               \/ /\ ret.value.n > 100 * Pow10(ret.value.d)
                  /\ ret.value.n < 1000000 * Pow10(ret.value.d)

\* A price of exactly 100 under the first selector is passed over for the
\* 1,299 of the second selector, which comes earlier in the document.
C9_Witness ==
    /\ ReturnedFrom("_extract_price")
    /\ Len(call.soup.prices) = 2
    /\ call.soup.prices[1] = [sel |-> 2, text |-> <<"₹", "1", ",", "2", "9", "9", ".">>]
    /\ call.soup.prices[2] = [sel |-> 1, text |-> <<"1", "0", "0">>]
    /\ ret.value = Dec(1299, 0)

\* a compound score in units of 0.0001
C10_E4(q) == q.n * Pow10(4 - q.d)

\* C10: the label of every result of predict is Positive iff compound >=
\* 0.05, Negative iff compound <= -0.05 and Neutral otherwise; empty or
\* missing text gives Neutral with compound 0.0, positive 0.0, negative 0.0
\* and neutral 1.0.
C10_LabelThresholds ==
    ReturnedFrom("predict") =>
        LET r == ret.value
            c == C10_E4(r.compound_score)
        IN  /\ r.sentiment = "Positive" <=> c >= 500
            /\ r.sentiment = "Negative" <=> c <= -500
            /\ r.sentiment = "Neutral" <=> (-500 < c /\ c < 500)
            /\ call.text \in {None, <<>>} =>
                  /\ r.sentiment = "Neutral"
                  /\ r.compound_score.n = 0
                  /\ r.pos_score.n = 0
                  /\ r.neg_score.n = 0
                  /\ r.neu_score.n = Pow10(r.neu_score.d)
            /\ call.text \notin {None, <<>>} =>
                  r.compound_score = call.scores.compound

\* A text whose compound score is exactly 0.05 is labelled Positive.
C10_Witness ==
    /\ ReturnedFrom("predict")
    /\ call.text = t20
    /\ call.scores.compound = Dec(5, 2)
    /\ ret.value.sentiment = "Positive"

\* C12: every review's star rating lies in [0, 5] and the row's rating,
\* int(rating), is an integer in 0..5, whatever numeric token the
\* star-rating element holds (10 or 45, say); it is 3 when the element is
\* absent or holds no numeric token.
C12_RatingInRange ==
    ReturnedFrom("_extract_reviews_and_ratings") =>
        LET elems == call.soup.elems
            ratings == ret.value.ratings
        IN  /\ \A k \in 1..Len(ratings) :
                  /\ DecLe(Dec(0, 1), ratings[k])
                  /\ DecLe(ratings[k], Dec(50, 1))
                  /\ IntOf(ratings[k]) \in 0..5
            /\ (\A j \in 1..Len(elems) :
                    elems[j].star = None \/ ~FirstNumber(elems[j].star).found)
                  => \A k \in 1..Len(ratings) : IntOf(ratings[k]) = 3

----------------------------------------------------------------------------
(* Claims about a run and about the batch, under Spec *)

\* the run in progress, or the last one finished, is log[Len(log)]
Finished(k) == log[k].result.kind # "running"
Succeeded(k) == log[k].result.kind = "path"

C1_Padded(k, width) == Rep("0", width - 1) \o <<Digits[k + 1]>>

\* C1: a successful run on a page with N usable reviews has assembled and
\* written exactly N rows; row k carries the k-th extracted review's text,
\* review_id "R" and k zero-padded to 6 digits, product_id "B0" and k
\* zero-padded to 8 digits.
C1_OneRowPerReviewInOrder ==
    (pc = "returned" /\ result.kind = "path") =>
        LET usable == C8_Expected(Web[response].soup) IN
        /\ Len(usable) >= 1
        /\ Len(rows) = Len(usable)
        /\ fs[result.path].rows = rows
        /\ \A k \in 1..Len(rows) :
              /\ rows[k].review_text = usable[k]
              /\ rows[k].review_text = product_data.reviews[k]
              /\ rows[k].review_id = <<"R">> \o C1_Padded(k, 6)
              /\ rows[k].product_id = <<"B", "0">> \o C1_Padded(k, 8)

\* The page with reviews of 5, 20 and 40 characters gave two rows.
C1_Witness ==
    /\ pc = "returned"
    /\ result.kind = "path"
    /\ Len(Web[response].soup.elems) = 3
    /\ Len(rows) = 2
    /\ rows[2].review_id = <<"R", "0", "0", "0", "0", "0", "2">>

C2_Order == <<"Fetching", "Extracting", "Scoring", "Serializing", "Done">>
C2_Phases ==
    SelectSeq(history, LAMBDA e : e \in {"Fetching", "Extracting", "Scoring",
                                         "Serializing", "Done", "Failed"})
C2_Count(e) == Cardinality({k \in 1..Len(history) : history[k] = e})

\* C2: within a run the phases are entered in the order Fetching,
\* Extracting, Scoring&Tagging, Serializing, Done, none twice; the URL is
\* requested at most once; Failed may follow any phase; nothing, and no
\* write in particular, follows Failed or Done.
C2_PhaseOrder ==
    /\ \E n \in 0..Len(C2_Order) :
          \/ C2_Phases = SubSeq(C2_Order, 1, n)
          \/ /\ n < Len(C2_Order)
             /\ C2_Phases = Append(SubSeq(C2_Order, 1, n), "Failed")
    /\ C2_Count("GET") <= 1
    /\ \A k \in 1..Len(history) :
          history[k] \in {"Failed", "Done"} => k = Len(history)
    /\ (result.kind = "path") <=> (C2_Count("Done") = 1)
    /\ (result.kind \in {"None", "raise"}) <=> (C2_Count("Failed") = 1)

\* A run that went through every phase.
C2_Witness ==
    /\ pc = "returned"
    /\ history = <<"Fetching", "GET", "Extracting", "FIELDS", "Scoring",
                   "Serializing", "WRITE", "Done">>

\* the names ProductScraper() and SentimentAnalyzer() need
C3_ImportsOk ==
    {"SentimentIntensityAnalyzer", "requests", "BeautifulSoup", "cloudscraper"}
        \subseteq imported
\* the answer is a page that generate_csv_from_url turns into rows
C3_PageOk(w) ==
    /\ Web[w].kind = "response"
    /\ Web[w].status = 200
    /\ ~Contains(Lower(GetText(Web[w].soup)), Captcha)
    /\ ~Contains(Prefix(Lower(GetText(Web[w].soup)), 500), Robot)
    /\ C8_Expected(Web[w].soup) # <<>>
C3_PageOkAt == [w \in 1..Len(Web) |-> C3_PageOk(w)]
C3_UsableAt == [w \in 1..Len(Web) |-> Len(C8_Expected(Web[w].soup))]

\* C3: the batch runs every URL of its list exactly once, in list order,
\* whatever the earlier URLs did: a failure or an exception of one never
\* keeps a later one from being run, and a URL whose page is good is
\* carried to the write and, unless the write itself fails, returns its
\* path with its own rows in the file at that path when it returns.
C3_FailuresIsolated ==
    /\ Len(log) <= Len(urls)
    /\ \A k \in 1..Len(log) : log[k].url = urls[k]
    /\ Len(log) = IF pc \in {"for", "exit"} THEN i - 1 ELSE i
    /\ pc = "exit" => Len(log) = Len(urls)
    /\ \A k \in 1..Len(log) :
          (Finished(k) /\ log[k].resp # 0 /\ C3_ImportsOk /\ C3_PageOkAt[log[k].resp]) =>
              /\ log[k].disk \in {"ok", "error", "partial"}
              /\ log[k].disk = "ok" =>
                    /\ Succeeded(k)
                    /\ log[k].result.path \in DOMAIN fs
              /\ (log[k].disk = "ok" /\ k = Len(log) /\ pc = "returned") =>
                    /\ fs[result.path].writer = k
                    /\ fs[result.path].complete
                    /\ Len(fs[result.path].rows) = C3_UsableAt[log[k].resp]

\* The first URL was blocked and the second has written its file.
C3_Witness ==
    /\ pc = "exit"
    /\ Len(log) = 2
    /\ log[1].resp = 4 /\ log[1].result.kind = "None"
    /\ log[2].resp = 3 /\ Succeeded(2)
    /\ fs[log[2].result.path].writer = 2

RECURSIVE C4_PathsOf(_)
C4_PathsOf(lg) ==
    IF lg = <<>> THEN <<>>
    ELSE IF Head(lg).result.kind = "path"
         THEN <<Head(lg).result.path>> \o C4_PathsOf(Tail(lg))
         ELSE C4_PathsOf(Tail(lg))

\* C4, as stated: the batch returns one result per input URL: K entries for
\* K URLs, entry k being the path or the failure of URL k.
C4_OneResultPerUrl ==
    pc = "exit" =>
        /\ Len(generated_csvs) = Len(urls)
        /\ \A k \in 1..Len(urls) :
              Succeeded(k) => generated_csvs[k] = log[k].result.path

\* C4, amended: the batch returns the paths of the URLs that succeeded, in
\* list order, and nothing for a URL that failed: at most K entries for K
\* URLs, and K only when every URL succeeded.
C4_PathsOfSuccessesInOrder ==
    /\ pc \in {"for", "exit"} => generated_csvs = C4_PathsOf(log)
    /\ pc = "exit" =>
          /\ Len(generated_csvs) = Cardinality({k \in 1..Len(urls) : Succeeded(k)})
          /\ Len(generated_csvs) <= Len(urls)
          /\ Len(generated_csvs) = Len(urls) <=> \A k \in 1..Len(urls) : Succeeded(k)

\* Two URLs, the first failed: the only entry is the second URL's path.
C4_Witness ==
    /\ pc = "exit"
    /\ Len(urls) = 2
    /\ ~Succeeded(1) /\ Succeeded(2)
    /\ generated_csvs = <<log[2].result.path>>

\* C5, as stated: two successful runs that write into the same directory
\* return different paths, so no run replaces the file of another.
C5_DistinctPaths ==
    \A j, k \in 1..Len(log) :
        (j < k /\ Succeeded(j) /\ Succeeded(k)) =>
            log[j].result.path # log[k].result.path

\* which failure ended run k
C6_Cause(k) ==
    IF log[k].resp = 0 THEN "construction"
    ELSE IF Web[log[k].resp].kind = "exception" \/ Web[log[k].resp].status # 200
    THEN "fetch error"
    ELSE IF ~C3_PageOkAt[log[k].resp] /\ C3_UsableAt[log[k].resp] > 0
    THEN "blocked page"
    ELSE IF ~C3_PageOkAt[log[k].resp] THEN "no reviews or blocked"
    ELSE IF log[k].disk # "ok" THEN "serialization error"
    ELSE "none"

\* C6, as stated: generate_csv_from_url never raises, and the failure it
\* returns tells which kind of failure occurred.
C6_NeverRaisesTypedFailure ==
    /\ \A k \in 1..Len(log) : log[k].result.kind # "raise"
    /\ \A j, k \in 1..Len(log) :
          (Finished(j) /\ Finished(k) /\ ~Succeeded(j) /\ ~Succeeded(k)
             /\ C6_Cause(j) # C6_Cause(k)) =>
              log[j].result # log[k].result

\* C6, amended: generate_csv_from_url returns the path on success and the
\* one value None on a failed request, a status other than 200, a blocked
\* page, a page without usable reviews and a failed write; the exception of
\* ProductScraper() when the imports failed is not caught and reaches the
\* caller.
C6_PathNoneOrRaise ==
    \A k \in 1..Len(log) :
        Finished(k) =>
            /\ log[k].result.kind \in {"path", "None", "raise"}
            /\ log[k].result.kind = "raise" <=>
                  ~({"cloudscraper", "requests"} \subseteq imported)
            /\ log[k].result.kind = "path" <=> C6_Cause(k) = "none"
            /\ log[k].result.kind = "None" <=>
                  C6_Cause(k) \in {"fetch error", "blocked page",
                                   "no reviews or blocked", "serialization error"}
            /\ log[k].result.kind = "None" => log[k].result = ReturnNone

\* A failed request and a blocked page both ended in the same None.
C6_Witness ==
    /\ Len(log) = 2
    /\ Finished(2)
    /\ C6_Cause(1) = "fetch error" /\ C6_Cause(2) = "blocked page"
    /\ log[1].result = ReturnNone /\ log[2].result = ReturnNone

C7_Challenge(soup) ==
    LET page_text == Lower(GetText(soup)) IN
    \/ Contains(page_text, <<"c", "a", "p", "t", "c", "h", "a">>)
    \/ Contains(SubSeq(page_text, 1, Min(500, Len(page_text))),
                <<"r", "o", "b", "o", "t">>)
C7_ChallengeAt == [w \in 1..Len(Web) |-> C7_Challenge(Web[w].soup)]

\* C7: when the lower-cased text of the page contains "captcha", or its
\* first 500 characters contain "robot", the run extracts no name, price
\* or review, writes no file and ends in None, whatever reviews the page
\* holds.
C7_BlockBeforeExtraction ==
    (/\ Len(log) > 0
     /\ log[Len(log)].resp # 0
     /\ Web[log[Len(log)].resp].kind = "response"
     /\ C7_ChallengeAt[log[Len(log)].resp]) =>
        /\ response = log[Len(log)].resp
        /\ C2_Count("FIELDS") = 0
        /\ C2_Count("WRITE") = 0
        /\ ~product_data.some
        /\ rows = <<>>
        /\ \A f \in DOMAIN fs : fs[f].writer # Len(log)
        /\ result.kind \in {"running", "None"}
        /\ pc \in {"soup", "returned", "for", "exit"}

\* "Robot" ends at character 500 of a page with a good review: None.
C7_Witness ==
    /\ pc = "returned"
    /\ response # 0
    /\ Web[response].status = 200
    /\ Web[response].soup.lead = Rep("x", 495) \o RobotWord
    /\ Len(Web[response].soup.elems) = 1
    /\ Web[response].soup.elems[1].body = t40
    /\ result.kind = "None"
    /\ history = <<"Fetching", "GET", "Extracting", "Failed">>

\* C11: all rows of one run carry the same review_date, also when the
\* calendar date changes while the rows are being assembled: review_date of
\* row a equals review_date of row b for all a, b.
C11_SameReviewDate ==
    \A a, b \in 1..Len(rows) : rows[a].review_date = rows[b].review_date

\* C13: a failed run leaves the output directory unchanged: once
\* generate_csv_from_url has returned a failure or raised (fetch error,
\* status other than 200, challenge page, no usable review, write error), no
\* file of output_dir has been created or modified by that run.
C13_FailedRunLeavesDirUnchanged ==
    \A k \in 1..Len(log) :
        (Finished(k) /\ ~Succeeded(k)) =>
            \A f \in DOMAIN fs : fs[f].writer # k

----------------------------------------------------------------------------
(* Claims about the application, under SpecApp *)

\* C14: the dashboard lists every result of the session: whenever
\* dashboard() renders, under any interleaving with the index request, the
\* cleanup thread and the /cleanup and /start-over requests, dashboard_data
\* has exactly one entry per entry of the csv_results it read from the
\* session, in the same order and with the same url, marked success or
\* failed.
C14_DashboardListsEveryResult ==
    dashboard.pc = "render" =>
        /\ Len(dashboard.dashboard_data) = Len(dashboard.csv_results)
        /\ \A k \in 1..Len(dashboard.csv_results) :
              /\ k <= Len(dashboard.dashboard_data)
              /\ dashboard.dashboard_data[k].url = dashboard.csv_results[k].url
              /\ dashboard.dashboard_data[k].status \in {"success", "failed"}

============================================================================
